---- MODULE Spec2Model ----
(***************************************************************************)
(* Food-Connect, donor pages: DonorDashboard.tsx (the listing store and    *)
(* the search filter) and NewListing.tsx (the draft controller), together  *)
(* with the backend they talk to over fetch().                             *)
(*                                                                         *)
(* Conventions of the encoding:                                            *)
(*  - text that the code computes on (title, organization, dietary         *)
(*    restrictions, tags, search query) is a sequence of one-character     *)
(*    strings; text that is only stored and shown (messages, location,     *)
(*    description) is a TLA+ string;                                       *)
(*  - a nullable slot is <<>> (null) or <<v>>;                             *)
(*  - a JavaScript number is <<v>>, and NaN is <<>>;                       *)
(*  - an async handler is one action per run between two awaits: the part  *)
(*    up to the fetch() call, and the part from the response to the end.   *)
(***************************************************************************)
EXTENDS Integers, Sequences, FiniteSets, TLC

VARIABLES
    page,      \* which route is rendered: "dashboard" or "newlisting"
    dash,      \* DonorDashboard state: listings, searchQuery, isLoading, error
    form,      \* NewListing state: listing, tagInput, previewImage, isSubmitting, error
    net,       \* fetch() calls in flight, with the response once the server answered
    db,        \* the backend's food posts, in insertion order
    nextId,    \* the backend's next identifier
    tick,      \* index of the instant the wall clock showed when it was last read
    last,      \* history: how the handler that ended last, since the page was
               \* opened, ended
    created,   \* history: the post whose creation handleSubmit last saw succeed
               \* since NewListing was opened, <<>> if none
    objectUrls, \* how many object URLs the document holds: created by
               \* URL.createObjectURL and not revoked
    commits    \* history: the collection that the refresh of the dashboard
               \* shown has stored, and the identifiers that its handleDelete
               \* calls have removed since

vars ==
    <<page, dash, form, net, db, nextId, tick, last, created, objectUrls, commits>>

----------------------------------------------------------------------------
(* Bounds of the model. *)

MaxTick == 2
MaxId == 3
MaxInFlight == 2
MaxUrls == 2
MaxDietLen == 10

----------------------------------------------------------------------------
(* JavaScript values. *)

Null == <<>>
Some(v) == <<v>>
NaN == <<>>
Num(v) == <<v>>
IsNaN(x) == x = NaN
JsNull == [jsnull |-> TRUE]

MsPerHour == 1000 * 60 * 60
MsPerMinute == 1000 * 60

\* The clock's instants, in ms since the session began: 0, 1, then two hours
\* later and 1 ms after that, and so on. Time passes between two reads of the
\* clock: a read returns any instant from the last one read on.
Instant(k) == (k \div 2) * 2 * MsPerHour + (k % 2)

\* Math.ceil(a / b) for integers a and b > 0.
MathCeilDiv(a, b) == -((-a) \div b)

\* Math.max(0, x): NaN if x is NaN.
MathMax0(x) == IF IsNaN(x) THEN NaN ELSE IF x[1] > 0 THEN x ELSE Num(0)

----------------------------------------------------------------------------
(* Text. *)

Uppers == <<"A","B","C","D","E","F","G","H","I","J","K","L","M",
            "N","O","P","Q","R","S","T","U","V","W","X","Y","Z">>
Lowers == <<"a","b","c","d","e","f","g","h","i","j","k","l","m",
            "n","o","p","q","r","s","t","u","v","w","x","y","z">>

LowerChar(c) ==
    IF \E i \in 1..Len(Uppers) : Uppers[i] = c
    THEN Lowers[CHOOSE i \in 1..Len(Uppers) : Uppers[i] = c]
    ELSE c

\* String.prototype.toLowerCase
toLowerCase(s) == [i \in 1..Len(s) |-> LowerChar(s[i])]

\* String.prototype.includes
includes(s, q) ==
    \E i \in 0..(Len(s) - Len(q)) : SubSeq(s, i + 1, i + Len(q)) = q

IsSpace(c) == c = " "

RECURSIVE TrimStart(_)
TrimStart(s) ==
    IF s # <<>> /\ IsSpace(Head(s)) THEN TrimStart(Tail(s)) ELSE s

RECURSIVE TrimEnd(_)
TrimEnd(s) ==
    IF s # <<>> /\ IsSpace(s[Len(s)])
    THEN TrimEnd(SubSeq(s, 1, Len(s) - 1))
    ELSE s

\* String.prototype.trim
trim(s) == TrimEnd(TrimStart(s))

\* String.prototype.split(','): the segments between the commas, so a text
\* without a comma (the empty text included) is one segment.
RECURSIVE SplitAcc(_, _, _)
SplitAcc(s, cur, acc) ==
    IF s = <<>> THEN Append(acc, cur)
    ELSE IF Head(s) = "," THEN SplitAcc(Tail(s), <<>>, Append(acc, cur))
    ELSE SplitAcc(Tail(s), Append(cur, Head(s)), acc)

split(s) == SplitAcc(s, <<>>, <<>>)


----------------------------------------------------------------------------
(* The data the model runs on. *)

Pie == <<"P", "i", "e">>
Tea == <<"t", "e", "a">>
Cafe == <<"C", "a", "f">>
VeganNuts == <<"V", "e", "g", ",", " ", "n", "u", "t">>

Titles == {Pie}
Queries == {<<>>, <<"p", "I">>}

\* An ISO-8601 text denoting the instant ms, and a text no Date can parse.
Iso(ms) == [iso |-> ms]
Unparsable == [text |-> "soon"]

ServerListing(id, title, diet, exp, urls) ==
    [id |-> id, title |-> title, organization |-> Cafe, location |-> "12 Main St",
     description |-> "fresh", quantity |-> 1, dietaryRestrictions |-> diet,
     availabilityStatus |-> "Available", expirationDate |-> exp,
     imageUrl |-> urls, userId |-> 7]

Post1 == ServerListing(1, Pie, VeganNuts, Iso(1), <<"/uploads/1.png", "/uploads/1b.png">>)
Post2 == ServerListing(2, Tea, <<>>, Iso(1), <<>>)
Post2Bad == ServerListing(2, Tea, <<>>, Unparsable, <<>>)

VeganOnly == <<"V", "e", "g", "a", "n">>
GlutenFree == <<"G", "l", "u", "t", "e", "n", "-", "F", "r", "e", "e">>
VeganGlutenFree == VeganOnly \o <<",", " ">> \o GlutenFree
VeganComma == <<" ", "V", "e", "g", "a", "n", " ", ",">>

Post3 == ServerListing(1, Tea, VeganGlutenFree, Iso(2 * MsPerHour), <<"/uploads/3.png">>)
Post4 == ServerListing(2, Pie, VeganOnly, Iso(0), <<>>)
Post5 == ServerListing(3, Pie, VeganComma, Unparsable, <<"/uploads/5.png", "/uploads/5b.png">>)

\* What the backend holds when the session starts.
InitialDbs == {<<Post1, Post2>>, <<Post1, Post2Bad>>}

Ids(s) == {s[i].id : i \in 1..Len(s)}

----------------------------------------------------------------------------
(* fetch(): requests in flight and the responses of the backend. *)

NoResp == [type |-> "none"]
NetErr == [type |-> "neterr"]
Http(status, json, body) ==
    [type |-> "http", status |-> status, json |-> json, body |-> body]

\* Response.ok
ResponseOk(resp) == resp.status >= 200 /\ resp.status <= 299

NotArray == [isArray |-> FALSE]
Array(items) == [isArray |-> TRUE, items |-> items]

FreeRid == CHOOSE i \in 1..(Cardinality(net) + 1) : \A r \in net : r.rid # i

Request(kind, id, payload) ==
    [rid |-> FreeRid, kind |-> kind, alive |-> TRUE, id |-> id,
     payload |-> payload, resp |-> NoResp]

\* An unmount after which the handlers of the requests in flight set the
\* state of the component mounted next.
OrphanTakenOver(kinds) == {x \in net : ~(x.kind = "list" /\ "list" \in kinds)}

\* The requests of a component that unmounts stay in flight; their handlers
\* then run against a component whose state setters do nothing. The list
\* request of an unmounted dashboard is left out from then on: it changes
\* nothing at the backend, and its handler only calls state setters.
Orphan(kinds) ==
    {IF r.kind \in kinds THEN [r EXCEPT !.alive = FALSE] ELSE r :
        r \in {x \in net : ~(x.kind = "list" /\ "list" \in kinds)}}

Answer(r, resp) == (net \ {r}) \cup {[r EXCEPT !.resp = resp]}

FailureMessage == "Failed to fetch"
JsonErrorMessage == "Unexpected token < in JSON at position 0"
NullReadMessage == "Cannot read properties of null (reading 'dietaryRestrictions')"

Ok(v) == [ok |-> TRUE, value |-> v]
Throw(m) == [ok |-> FALSE, message |-> m]

----------------------------------------------------------------------------
(* DonorDashboard: the decoding of a server record. *)

\* new Date(text).getTime()
DateGetTime(text) == IF "iso" \in DOMAIN text THEN Num(text.iso) ELSE NaN

\* Math.max(0, Math.ceil((expirationDate.getTime() - now.getTime()) / (1000 * 60 * 60)))
DurationHours(text, t) ==
    LET e == DateGetTime(text)
    IN  MathMax0(IF IsNaN(e) THEN NaN ELSE Num(MathCeilDiv(e[1] - t, MsPerHour)))

\* A decode that leaves the segments untrimmed.
ParseTagsRaw(diet) == IF diet # <<>> THEN split(diet) ELSE <<>>

\* listing.dietaryRestrictions ? split(',').map(trim) : []
ParseTags(diet) ==
    IF diet # <<>> THEN [i \in 1..Len(split(diet)) |-> trim(split(diet)[i])] ELSE <<>>

\* imageUrl && imageUrl.length > 0 ? imageUrl[0] : null
FirstImage(urls) == IF Len(urls) > 0 THEN Some(urls[1]) ELSE Null

\* The body of the map callback, with t the value its own new Date() returns.
Decode(listing, t) ==
    [tags |-> ParseTags(listing.dietaryRestrictions),
     status |-> listing.availabilityStatus,
     duration |-> DurationHours(listing.expirationDate, t),
     reservations |-> 0,
     image |-> FirstImage(listing.imageUrl)] @@ listing

\* The clock values the callback can read for the records of one response:
\* one per record, none earlier than the one before, none earlier than now.
ClockReads(n) ==
    {ts \in [1..n -> tick..MaxTick] : \A i \in 1..(n - 1) : ts[i] <= ts[i + 1]}

\* The number of records the map callback is called for.
RecordCount(resp) ==
    IF resp # NetErr /\ ResponseOk(resp) /\ resp.json
       /\ resp.body.success /\ resp.body.data.isArray
    THEN Len(resp.body.data.items)
    ELSE 0

\* result.data.map(...): the callback reads the clock once per record.
FormatListings(items, ts) ==
    IF \E i \in 1..Len(items) : items[i] = JsNull
    THEN Throw(NullReadMessage)
    ELSE Ok([i \in 1..Len(items) |-> Decode(items[i], Instant(ts[i]))])

\* The try block of fetchListings from the response on: the new listings,
\* or the error thrown.
FetchResult(resp, ts) ==
    IF resp = NetErr THEN Throw(FailureMessage)
    ELSE IF ~ResponseOk(resp)
    THEN Throw("Error " \o ToString(resp.status) \o ": Failed to fetch listings")
    ELSE IF ~resp.json THEN Throw(JsonErrorMessage)
    ELSE IF resp.body.success /\ resp.body.data.isArray
    THEN FormatListings(resp.body.data.items, ts)
    ELSE Throw("Invalid response format")

\* A fetchListings whose catch block sets no message.
FetchSettledSilent(d, result) ==
    IF result.ok
    THEN [d EXCEPT !.listings = result.value, !.isLoading = FALSE]
    ELSE [d EXCEPT !.isLoading = FALSE]

\* setListings(formattedListings) or the catch block, then the finally block.
FetchSettled(d, result) ==
    IF result.ok
    THEN [d EXCEPT !.listings = result.value, !.isLoading = FALSE]
    ELSE [d EXCEPT !.error = Some(result.message), !.isLoading = FALSE]

\* A handleDelete that takes every parsed 2xx response for a success.
DeleteResultAnyEnvelope(resp) ==
    IF resp = NetErr THEN Throw(FailureMessage)
    ELSE IF ~resp.json THEN Throw(JsonErrorMessage)
    ELSE IF ~ResponseOk(resp) THEN Throw("Error")
    ELSE Ok(TRUE)

\* The try block of handleDelete from the response on.
DeleteResult(resp) ==
    IF resp = NetErr THEN Throw(FailureMessage)
    ELSE IF ~resp.json THEN Throw(JsonErrorMessage)
    ELSE IF ~ResponseOk(resp)
    THEN Throw(IF resp.body.message # ""
               THEN resp.body.message
               ELSE "Error " \o ToString(resp.status) \o ": Failed to delete listing")
    ELSE IF resp.body.success THEN Ok(TRUE)
    ELSE Throw(IF resp.body.message # ""
               THEN resp.body.message
               ELSE "Failed to delete listing")

\* prevListings.filter(listing => listing.id !== id)
WithoutId(listings, id) == SelectSeq(listings, LAMBDA l : l.id # id)

\* A handleDelete that filters the collection as the refresh stored it, and
\* not the collection as it is when the response is there.
DeleteSettledStale(d, id, result) ==
    IF result.ok
    THEN [d EXCEPT !.listings = WithoutId(commits.loaded, id)]
    ELSE [d EXCEPT !.error = Some("Failed to delete listing: " \o result.message)]

\* setListings(updater) or the catch block of handleDelete.
DeleteSettled(d, id, result) ==
    IF result.ok
    THEN [d EXCEPT !.listings = WithoutId(d.listings, id)]
    ELSE [d EXCEPT !.error = Some("Failed to delete listing: " \o result.message)]

\* A filter that compares the letters as they are.
MatchesExactCase(listing, q) ==
    \/ includes(listing.title, q)
    \/ includes(listing.organization, q)
    \/ \E i \in 1..Len(listing.tags) : includes(listing.tags[i], q)

\* The predicate of filteredListings.
Matches(listing, q) ==
    \/ includes(toLowerCase(listing.title), toLowerCase(q))
    \/ includes(toLowerCase(listing.organization), toLowerCase(q))
    \/ \E i \in 1..Len(listing.tags) :
           includes(toLowerCase(listing.tags[i]), toLowerCase(q))

\* A filter that shows nothing while the query is empty.
filteredListingsTyped(listings, q) ==
    IF q = <<>> THEN <<>> ELSE SelectSeq(listings, LAMBDA l : Matches(l, q))

filteredListings(listings, q) == SelectSeq(listings, LAMBDA l : Matches(l, q))

----------------------------------------------------------------------------
(* NewListing: the draft and its submission. *)

\* The value of a datetime-local input showing the wall-clock minute m.
LocalInput(m) == Some(m)

BlobA == "a.png"
Blobs == {BlobA}

\* URL.createObjectURL(file)
ObjectUrl(file) == "blob:" \o file

\* localStorage's foodConnectProfile, when there is one.
Profile == [name |-> Cafe, address |-> "12 Main St"]
Profiles == {Null, Some(Profile)}

\* The browser's time zone, in minutes east of UTC.
TzOffsets == {0, 60}

\* The useState initial values of NewListing.
FormInitial ==
    [listing |-> [title |-> <<>>, organization |-> <<>>, location |-> "",
                  quantity |-> 1, dietaryRestrictions |-> <<>>, description |-> "",
                  availabilityStatus |-> "Available", expirationDate |-> Null,
                  image |-> Null],
     tagInput |-> <<>>, previewImage |-> Null, isSubmitting |-> FALSE, error |-> ""]

\* tomorrow.toISOString().slice(0, 16): the UTC wall-clock minute of t.
IsoMinute(t) == LocalInput(t \div MsPerMinute)

\* The mount effect: organization and location from the cached profile, and
\* the default expiration date, with t the value of new Date().
FormMounted(profile, t) ==
    LET l0 == FormInitial.listing
        l1 == IF profile # Null
              THEN [l0 EXCEPT !.organization = profile[1].name,
                              !.location = profile[1].address]
              ELSE l0
    IN  [FormInitial EXCEPT
            !.listing = [l1 EXCEPT !.expirationDate = IsoMinute(t + 24 * MsPerHour)]]

\* new Date(value).getTime() of a datetime-local value: the text is read as
\* local time, tz minutes east of UTC.
LocalGetTime(value, tz) ==
    IF value = Null THEN NaN ELSE Num((value[1] - tz) * MsPerMinute)

\* What the user can type into the inputs that handleChange serves.
FieldInputs ==
    [name : {"title"}, value : Titles]
    \cup [name : {"description"}, value : {"fresh"}]
    \cup [name : {"location"}, value : {"12 Main St"}]

\* setListing(prev => ({...prev, [name]: value}))
SetField(l, name, value) == [l EXCEPT ![name] = value]

\* What the user types into the tag input: a tag, a tag with spaces around
\* it, a part of a tag, a space, two tags at once, and a comma.
PaddedNut == <<" ", "n", "u", "t", " ">>
TagInputs ==
    {VeganOnly, PaddedNut, <<"V", "e", "g">>, <<" ">>, <<"a", ",", "b">>, <<",">>}

\* dietaryTags: the tags shown, each with its remove button.
dietaryTags(diet) ==
    IF diet # <<>>
    THEN SelectSeq([i \in 1..Len(split(diet)) |-> trim(split(diet)[i])],
                   LAMBDA tag : tag # <<>>)
    ELSE <<>>

\* The tags that can come to be shown: the segments of what is typed.
Tags ==
    UNION {{dietaryTags(trim(t))[i] : i \in 1..Len(dietaryTags(trim(t)))} :
              t \in TagInputs}

\* Array.prototype.join(', ')
RECURSIVE join(_)
join(tags) ==
    IF tags = <<>> THEN <<>>
    ELSE IF Len(tags) = 1 THEN tags[1]
    ELSE tags[1] \o <<",", " ">> \o join(Tail(tags))

\* An addTag that refuses a tag only when it is one of the tags shown.
TagAcceptedUnlessShown(f) ==
    /\ trim(f.tagInput) # <<>>
    /\ \A i \in 1..Len(dietaryTags(f.listing.dietaryRestrictions)) :
          dietaryTags(f.listing.dietaryRestrictions)[i] # trim(f.tagInput)

\* The condition of addTag: the trimmed input is not empty and the
\* dietary restrictions do not include it.
TagAccepted(f) ==
    /\ trim(f.tagInput) # <<>>
    /\ ~includes(f.listing.dietaryRestrictions, trim(f.tagInput))

\* An addTag that appends whatever is typed.
TagAddedAlways(f) ==
    IF trim(f.tagInput) # <<>>
    THEN [f EXCEPT !.listing.dietaryRestrictions =
                       IF @ # <<>> THEN @ \o <<",", " ">> \o trim(f.tagInput)
                       ELSE trim(f.tagInput),
                   !.tagInput = <<>>]
    ELSE f

\* addTag
TagAdded(f) ==
    IF TagAccepted(f)
    THEN [f EXCEPT !.listing.dietaryRestrictions =
                       IF @ # <<>> THEN @ \o <<",", " ">> \o trim(f.tagInput)
                       ELSE trim(f.tagInput),
                   !.tagInput = <<>>]
    ELSE f

\* removeTag
TagRemoved(f, tagToRemove) ==
    LET tags == [i \in 1..Len(split(f.listing.dietaryRestrictions)) |->
                    trim(split(f.listing.dietaryRestrictions)[i])]
    IN  [f EXCEPT !.listing.dietaryRestrictions =
                      join(SelectSeq(tags, LAMBDA tag : tag # tagToRemove))]

\* The required attributes of the inputs: the browser raises no submit event
\* while one of them is empty.
RequiredFilled(l) ==
    /\ l.title # <<>>
    /\ l.location # ""
    /\ l.description # ""
    /\ l.expirationDate # Null

\* The FormData built by handleSubmit.
FormData(l, tz) ==
    [title |-> l.title, quantity |-> ToString(l.quantity),
     description |-> l.description, dietaryRestrictions |-> l.dietaryRestrictions,
     location |-> l.location, availabilityStatus |-> l.availabilityStatus,
     expirationDate |-> Iso(LocalGetTime(l.expirationDate, tz)[1]),
     images |-> l.image[1]]

\* A handleSubmit that leaves the message of the submit before in place.
SubmitStartedKeepingError(f) == [f EXCEPT !.isSubmitting = TRUE]

\* handleSubmit up to the validation of the image.
SubmitStarted(f) == [f EXCEPT !.error = "", !.isSubmitting = TRUE]

\* A handleSubmit that ends without a message when the image is missing.
SubmitRejectedSilent(f) == [f EXCEPT !.isSubmitting = FALSE]

\* The branch of handleSubmit for a draft without an image.
SubmitRejected(f) ==
    [f EXCEPT !.error = "Please upload an image for your listing",
              !.isSubmitting = FALSE]

\* The try block of handleSubmit from the response on: Ok, then navigate, or
\* the error thrown.
CreateResult(resp) ==
    IF resp = NetErr THEN Throw(FailureMessage)
    ELSE IF ~resp.json THEN Throw(JsonErrorMessage)
    ELSE IF ~ResponseOk(resp)
    THEN Throw(IF resp.body.message # ""
               THEN resp.body.message
               ELSE "Error " \o ToString(resp.status) \o ": Failed to create listing")
    ELSE Ok(TRUE)

\* A handleSubmit whose catch block empties the draft.
SubmitSettledReset(f, result) ==
    IF result.ok
    THEN [f EXCEPT !.isSubmitting = FALSE]
    ELSE [f EXCEPT !.listing = FormInitial.listing, !.error = result.message,
                   !.isSubmitting = FALSE]

\* The catch block (on a failure) and the finally block of handleSubmit.
SubmitSettled(f, result) ==
    IF result.ok
    THEN [f EXCEPT !.isSubmitting = FALSE]
    ELSE [f EXCEPT !.error = IF result.message # "" THEN result.message
                             ELSE "Failed to create listing. Please try again.",
                   !.isSubmitting = FALSE]

----------------------------------------------------------------------------
(* The backend and the network. *)

Envelope(success, message) == [success |-> success, message |-> message]

\* The record the backend stores for a create request.
Created(id, payload) ==
    [id |-> id, title |-> payload.title, organization |-> Cafe,
     location |-> payload.location, description |-> payload.description,
     quantity |-> 1, dietaryRestrictions |-> payload.dietaryRestrictions,
     availabilityStatus |-> payload.availabilityStatus,
     expirationDate |-> payload.expirationDate,
     imageUrl |-> <<"/uploads/" \o payload.images>>, userId |-> 7]

\* GET /api/food-posts
ServerList(r) ==
    /\ r.kind = "list" /\ r.resp = NoResp
    /\ net' = Answer(r, Http(200, TRUE, [success |-> TRUE, data |-> Array(db)]))
    /\ UNCHANGED <<page, dash, form, db, nextId, tick, last, created, objectUrls, commits>>

\* DELETE /api/food-posts/{id}
ServerDelete(r) ==
    /\ r.kind = "delete" /\ r.resp = NoResp
    /\ r.id \in Ids(db)
    /\ db' = SelectSeq(db, LAMBDA p : p.id # r.id)
    /\ net' = Answer(r, Http(200, TRUE, Envelope(TRUE, "Food post deleted")))
    /\ UNCHANGED <<page, dash, form, nextId, tick, last, created, objectUrls, commits>>

\* POST /api/food-posts
ServerCreate(r) ==
    /\ r.kind = "create" /\ r.resp = NoResp
    /\ nextId <= MaxId
    /\ db' = Append(db, Created(nextId, r.payload))
    /\ nextId' = nextId + 1
    /\ net' = Answer(r, Http(201, TRUE, Created(nextId, r.payload)))
    /\ UNCHANGED <<page, dash, form, tick, last, created, objectUrls, commits>>

\* The answers that change nothing at the backend. They depend on nothing
\* that changes, so they are drawn when they arrive.
ListRejections ==
    {NetErr,
     Http(200, TRUE, [success |-> TRUE, data |-> NotArray]),
     Http(200, TRUE, [success |-> FALSE, data |-> Array(<<>>)]),
     Http(200, FALSE, Null),
     Http(500, TRUE, Envelope(FALSE, "Server error"))}

DeleteRejections(id) ==
    {NetErr,
     Http(500, TRUE, Envelope(FALSE, "")),
     Http(500, FALSE, Null),
     Http(200, TRUE, Envelope(FALSE, "")),
     Http(200, TRUE, Envelope(FALSE, "Not authorized"))}
    \cup (IF id \in Ids(db) THEN {}
          ELSE {Http(404, TRUE, Envelope(FALSE, "Food post not found"))})

CreateRejections ==
    {NetErr,
     Http(400, TRUE, Envelope(FALSE, "Title is too long")),
     Http(500, TRUE, Envelope(FALSE, "")),
     Http(500, FALSE, Null)}

\* What the fetch() of request r can settle with now: a rejection, or what
\* became of the backend's answer on its way.
Arrivals(r) ==
    IF r.resp = NoResp
    THEN CASE r.kind = "list" -> ListRejections
           [] r.kind = "delete" -> DeleteRejections(r.id)
           [] r.kind = "create" -> CreateRejections
    ELSE CASE r.kind = "list" ->
                {r.resp,
                 [r.resp EXCEPT !.body.data =
                     Array(Append(r.resp.body.data.items, JsNull))]}
           [] r.kind = "delete" -> {r.resp, NetErr}
           [] r.kind = "create" -> {r.resp, Http(201, FALSE, Null), NetErr}

----------------------------------------------------------------------------
(* DonorDashboard: the component. *)

\* The useState initial values of DonorDashboard.
DashInitial ==
    [listings |-> <<>>, searchQuery |-> <<>>, isLoading |-> TRUE, error |-> Null]

\* fetchListings up to its fetch() call.
FetchStarted(d) == [d EXCEPT !.isLoading = TRUE, !.error = Null]

\* How a handler ended, for the history.
Ended(name, id, result, alive) ==
    [handler |-> name, id |-> id, ok |-> result.ok, mounted |-> alive]

NoneEnded == Ended("none", 0, Ok(TRUE), TRUE)

\* What a dashboard has stored and removed when it mounts, for the history.
NoCommits == [loaded |-> <<>>, removed |-> {}]

\* The route changes to /donor/dashboard: the component mounts and its mount
\* effect calls fetchListings; NewListing, if it was shown, unmounts.
MountDashboard(settled) ==
    /\ page' = "dashboard"
    /\ dash' = FetchStarted(DashInitial)
    /\ form' = FormInitial
    /\ net' = (Orphan({"create"}) \ settled) \cup {Request("list", 0, Null)}
    /\ commits' = NoCommits

\* A link of NewListing to /donor/dashboard is followed.
OpenDashboard ==
    /\ page = "newlisting"
    /\ Cardinality(net) < MaxInFlight
    /\ MountDashboard({})
    /\ last' = NoneEnded
    /\ UNCHANGED <<db, nextId, tick, created, objectUrls>>

\* A fetchListings without its finally block: the loading flag stays up.
ListResponseStuck(r, resp) ==
    /\ r.kind = "list" /\ resp \in Arrivals(r)
    /\ \E ts \in ClockReads(RecordCount(resp)) :
          /\ dash' = IF r.alive
                      THEN [FetchSettled(dash, FetchResult(resp, ts)) EXCEPT
                               !.isLoading = dash.isLoading]
                      ELSE dash
          /\ tick' = IF ts = <<>> THEN tick ELSE ts[Len(ts)]
          /\ last' = Ended("fetchListings", 0, FetchResult(resp, ts), r.alive)
          /\ commits' = IF r.alive /\ FetchResult(resp, ts).ok
                         THEN [loaded |-> FetchResult(resp, ts).value, removed |-> {}]
                         ELSE commits
    /\ net' = net \ {r}
    /\ UNCHANGED <<page, form, db, nextId, created, objectUrls>>

\* fetchListings from the response on. The callback of map reads the clock
\* once per record, and the clock may advance between two reads.
ListResponse(r, resp) ==
    /\ r.kind = "list" /\ resp \in Arrivals(r)
    /\ \E ts \in ClockReads(RecordCount(resp)) :
          /\ dash' = IF r.alive THEN FetchSettled(dash, FetchResult(resp, ts)) ELSE dash
          /\ tick' = IF ts = <<>> THEN tick ELSE ts[Len(ts)]
          /\ last' = Ended("fetchListings", 0, FetchResult(resp, ts), r.alive)
          /\ commits' = IF r.alive /\ FetchResult(resp, ts).ok
                         THEN [loaded |-> FetchResult(resp, ts).value, removed |-> {}]
                         ELSE commits
    /\ net' = net \ {r}
    /\ UNCHANGED <<page, form, db, nextId, created, objectUrls>>

\* A handleDelete that removes the listing before the server has answered.
DeleteStartedOptimistic(d, id) == [d EXCEPT !.listings = WithoutId(d.listings, id)]

\* handleDelete between the confirmation and its fetch() call: no state is set.
DeleteStarted(d, id) == d

\* A handleDelete that reports a declined prompt in the error slot.
DeleteDeclinedReported(d, id) == [d EXCEPT !.error = Some("Cancelled")]

\* handleDelete after window.confirm has returned false: it returns.
DeleteDeclined(d, id) == d

\* A handleDelete that empties the error slot before its fetch() call, as
\* fetchListings does.
HandleDeleteClearing(id, confirmed) ==
    /\ page = "dashboard" /\ ~dash.isLoading
    /\ id \in Ids(filteredListings(dash.listings, dash.searchQuery))
    /\ IF confirmed
       THEN /\ Cardinality(net) < MaxInFlight
            /\ dash' = [DeleteStarted(dash, id) EXCEPT !.error = Null]
            /\ net' = net \cup {Request("delete", id, Null)}
            /\ last' = last
       ELSE /\ dash' = DeleteDeclined(dash, id)
            /\ net' = net
            /\ last' = Ended("window.confirm", 0, Throw(""), TRUE)
    /\ UNCHANGED <<page, form, db, nextId, tick, created, objectUrls, commits>>

\* handleDelete up to its fetch() call. The Delete button of a listing is
\* rendered for the filtered listings, once the loading state is over.
HandleDelete(id, confirmed) ==
    /\ page = "dashboard" /\ ~dash.isLoading
    /\ id \in Ids(filteredListings(dash.listings, dash.searchQuery))
    /\ IF confirmed
       THEN /\ Cardinality(net) < MaxInFlight
            /\ dash' = DeleteStarted(dash, id)
            /\ net' = net \cup {Request("delete", id, Null)}
            /\ last' = last
       ELSE /\ dash' = DeleteDeclined(dash, id)
            /\ net' = net
            /\ last' = Ended("window.confirm", 0, Throw(""), TRUE)
    /\ UNCHANGED <<page, form, db, nextId, tick, created, objectUrls, commits>>

\* handleDelete from the response on.
DeleteResponse(r, resp) ==
    /\ r.kind = "delete" /\ resp \in Arrivals(r)
    /\ dash' = IF r.alive THEN DeleteSettled(dash, r.id, DeleteResult(resp)) ELSE dash
    /\ net' = net \ {r}
    /\ last' = Ended("handleDelete", r.id, DeleteResult(resp), r.alive)
    /\ commits' = IF r.alive /\ DeleteResult(resp).ok
                   THEN [commits EXCEPT !.removed = @ \cup {r.id}]
                   ELSE commits
    /\ UNCHANGED <<page, form, db, nextId, tick, created, objectUrls>>

\* An onChange of the search input that also empties the error slot.
SetSearchQueryClearing(q) ==
    /\ page = "dashboard"
    /\ q # dash.searchQuery
    /\ dash' = [dash EXCEPT !.searchQuery = q, !.error = Null]
    /\ UNCHANGED <<page, form, net, db, nextId, tick, last, created, objectUrls, commits>>

\* The onChange of the search input.
SetSearchQuery(q) ==
    /\ page = "dashboard"
    /\ q # dash.searchQuery
    /\ dash' = [dash EXCEPT !.searchQuery = q]
    /\ UNCHANGED <<page, form, net, db, nextId, tick, last, created, objectUrls, commits>>

----------------------------------------------------------------------------
(* NewListing: the component. *)

\* A link of DonorDashboard to /donor/newlisting is followed: NewListing
\* mounts and its mount effect fills the draft; DonorDashboard unmounts.
OpenNewListing ==
    /\ page = "dashboard"
    /\ page' = "newlisting"
    /\ \E profile \in Profiles, t \in tick..MaxTick :
          /\ form' = FormMounted(profile, Instant(t))
          /\ tick' = t
    /\ dash' = DashInitial
    /\ net' = Orphan({"list", "delete"})
    /\ last' = NoneEnded
    /\ created' = Null
    /\ commits' = NoCommits
    /\ UNCHANGED <<db, nextId, objectUrls>>

HandleChange(in) ==
    /\ page = "newlisting"
    /\ form.listing[in.name] # in.value
    /\ form' = [form EXCEPT !.listing = SetField(form.listing, in.name, in.value)]
    /\ UNCHANGED <<page, dash, net, db, nextId, tick, last, created, objectUrls, commits>>

\* The object URLs of the document after handleImageChange: one more, as
\* nothing is revoked.
UrlsAfterChange(n) == n + 1

\* The onChange of the file input: it fires when the selection changes.
HandleImageChange(file) ==
    /\ page = "newlisting"
    /\ form.listing.image # Some(file)
    /\ objectUrls < MaxUrls
    /\ form' = [form EXCEPT !.listing = SetField(form.listing, "image", Some(file)),
                            !.previewImage = Some(ObjectUrl(file))]
    /\ objectUrls' = UrlsAfterChange(objectUrls)
    /\ UNCHANGED <<page, dash, net, db, nextId, tick, last, created, commits>>

\* The onChange of the tag input.
SetTagInput(t) ==
    /\ page = "newlisting"
    /\ t # form.tagInput
    /\ form' = [form EXCEPT !.tagInput = t]
    /\ UNCHANGED <<page, dash, net, db, nextId, tick, last, created, objectUrls, commits>>

\* The Add button.
AddTag ==
    /\ page = "newlisting"
    /\ Len(TagAdded(form).listing.dietaryRestrictions) <= MaxDietLen
    /\ form' = TagAdded(form)
    /\ last' = Ended("addTag", 0, IF TagAccepted(form) THEN Ok(TRUE) ELSE Throw(""), TRUE)
    /\ UNCHANGED <<page, dash, net, db, nextId, tick, created, objectUrls, commits>>

\* The remove button of a tag shown.
RemoveTag(tag) ==
    /\ page = "newlisting"
    /\ \E i \in 1..Len(dietaryTags(form.listing.dietaryRestrictions)) :
          dietaryTags(form.listing.dietaryRestrictions)[i] = tag
    /\ form' = TagRemoved(form, tag)
    /\ last' = Ended("removeTag", 0, Ok(TRUE), TRUE)
    /\ UNCHANGED <<page, dash, net, db, nextId, tick, created, objectUrls, commits>>

\* What the user presses in the tag input.
Keys == {"Enter", "a"}

\* handleKeyDown: Enter adds the tag, and the form is not submitted.
HandleKeyDown(key) ==
    IF key = "Enter" THEN AddTag ELSE UNCHANGED vars

\* A submit button that is never disabled.
SubmitEnabledAlways(f) == TRUE

\* disabled={isSubmitting} on the submit button.
SubmitEnabled(f) == ~f.isSubmitting

\* handleSubmit up to its fetch() call, or to its end when no image is attached.
HandleSubmit(tz) ==
    /\ page = "newlisting" /\ SubmitEnabled(form)
    /\ RequiredFilled(form.listing)
    /\ IF form.listing.image = Null
       THEN /\ form' = SubmitRejected(SubmitStarted(form))
            /\ net' = net
            /\ last' = Ended("handleSubmit", 0, Throw(form'.error), TRUE)
       ELSE /\ Cardinality(net) < MaxInFlight
            /\ form' = SubmitStarted(form)
            /\ net' = net \cup {Request("create", 0, FormData(form.listing, tz))}
            /\ last' = last
    /\ UNCHANGED <<page, dash, db, nextId, tick, created, objectUrls, commits>>

\* handleSubmit from the response on. navigate() works whether or not the
\* component is still mounted; its state setters do not. With the dashboard
\* already shown, navigate('/donor/dashboard') mounts nothing.
CreateResponse(r, resp) ==
    /\ r.kind = "create" /\ resp \in Arrivals(r)
    /\ LET result == CreateResult(resp)
       IN  /\ last' = Ended("handleSubmit", 0, result, r.alive)
           /\ IF result.ok /\ page # "dashboard"
              THEN MountDashboard({[r EXCEPT !.alive = FALSE]})
              ELSE /\ form' = IF r.alive THEN SubmitSettled(form, result) ELSE form
                   /\ net' = net \ {r}
                   /\ UNCHANGED <<page, dash, commits>>
           /\ created' = IF result.ok THEN Some(resp.body.id) ELSE created
    /\ UNCHANGED <<db, nextId, tick, objectUrls>>

----------------------------------------------------------------------------
(* The specifications. *)

\* The session starts on the dashboard, which has just mounted.
Init ==
    /\ page = "dashboard"
    /\ dash = FetchStarted(DashInitial)
    /\ form = FormInitial
    /\ net = {[rid |-> 1, kind |-> "list", alive |-> TRUE, id |-> 0,
                payload |-> Null, resp |-> NoResp]}
    /\ db \in InitialDbs
    /\ nextId = 3
    /\ tick = 0
    /\ last = NoneEnded
    /\ created = Null
    /\ objectUrls = 0
    /\ commits = NoCommits

\* The whole session.
Next ==
    \/ OpenDashboard
    \/ OpenNewListing
    \/ \E r \in net : \E resp \in Arrivals(r) : ListResponse(r, resp)
    \/ \E id \in 1..MaxId, confirmed \in BOOLEAN : HandleDelete(id, confirmed)
    \/ \E r \in net : \E resp \in Arrivals(r) : DeleteResponse(r, resp)
    \/ \E q \in Queries : SetSearchQuery(q)
    \/ \E in \in FieldInputs : HandleChange(in)
    \/ \E file \in Blobs : HandleImageChange(file)
    \/ \E t \in TagInputs : SetTagInput(t)
    \/ AddTag
    \/ \E tag \in Tags : RemoveTag(tag)
    \/ \E key \in Keys : HandleKeyDown(key)
    \/ \E tz \in TzOffsets : HandleSubmit(tz)
    \/ \E r \in net : \E resp \in Arrivals(r) : CreateResponse(r, resp)
    \/ \E r \in net : ServerList(r)
    \/ \E r \in net : ServerDelete(r)
    \/ \E r \in net : ServerCreate(r)

Spec == Init /\ [][Next]_vars

\* A session in which the draft is left as NewListing mounts it: the user
\* works with the listings, and may visit NewListing and come back.
NextStore ==
    \/ OpenDashboard
    \/ OpenNewListing
    \/ \E r \in net : \E resp \in Arrivals(r) : ListResponse(r, resp)
    \/ \E id \in 1..MaxId, confirmed \in BOOLEAN : HandleDelete(id, confirmed)
    \/ \E r \in net : \E resp \in Arrivals(r) : DeleteResponse(r, resp)
    \/ \E q \in Queries : SetSearchQuery(q)
    \/ \E r \in net : ServerList(r)
    \/ \E r \in net : ServerDelete(r)

SpecStore == Init /\ [][NextStore]_vars

\* The same session, with the event loop at work: the continuation of a
\* fetchListings whose fetch() has settled, or can settle, is run in the end.
ListSettles == \E r \in net : \E resp \in Arrivals(r) : ListResponse(r, resp)

SpecStoreLive == SpecStore /\ WF_vars(ListSettles)

\* A session in which nothing is deleted: the user fills and submits drafts,
\* and searches the listings.
NextDraft ==
    \/ OpenDashboard
    \/ OpenNewListing
    \/ \E r \in net : \E resp \in Arrivals(r) : ListResponse(r, resp)
    \/ \E q \in Queries : SetSearchQuery(q)
    \/ \E in \in FieldInputs : HandleChange(in)
    \/ \E file \in Blobs : HandleImageChange(file)
    \/ \E tz \in TzOffsets : HandleSubmit(tz)
    \/ \E r \in net : \E resp \in Arrivals(r) : CreateResponse(r, resp)
    \/ \E r \in net : ServerList(r)
    \/ \E r \in net : ServerCreate(r)

SpecDraft == Init /\ [][NextDraft]_vars

\* The same session, with the event loop at work: the continuation of a
\* handleSubmit whose fetch() has settled, or can settle, is run in the end.
CreateSettles == \E r \in net : \E resp \in Arrivals(r) : CreateResponse(r, resp)

SpecDraftLive == SpecDraft /\ WF_vars(CreateSettles)

\* What the backend holds in a session that looks at the decoding and at
\* the search: records with every kind of dietary restrictions, of images
\* and of expiration dates.
CodecDbs ==
    InitialDbs \cup {<<>>, <<Post3>>, <<Post2, Post3>>, <<Post3, Post4>>,
                     <<Post4, Post3, Post5>>}

\* What the user types into the search input in such a session.
CodecQueries ==
    Queries \cup {<<"v", "e", "g", "a", "n">>, <<"A", "F">>, <<"z">>, <<"e">>}

InitCodec ==
    /\ page = "dashboard"
    /\ dash = FetchStarted(DashInitial)
    /\ form = FormInitial
    /\ net = {[rid |-> 1, kind |-> "list", alive |-> TRUE, id |-> 0,
                payload |-> Null, resp |-> NoResp]}
    /\ db \in CodecDbs
    /\ nextId = 3
    /\ tick = 0
    /\ last = NoneEnded
    /\ created = Null
    /\ objectUrls = 0
    /\ commits = NoCommits

\* A session in which the user only looks: the dashboard refreshes, each
\* time it mounts, and the user searches.
NextCodec ==
    \/ OpenDashboard
    \/ OpenNewListing
    \/ \E r \in net : \E resp \in Arrivals(r) : ListResponse(r, resp)
    \/ \E q \in CodecQueries : SetSearchQuery(q)
    \/ \E r \in net : ServerList(r)

SpecCodec == InitCodec /\ [][NextCodec]_vars

\* A session in which the user edits the tags of drafts.
NextTags ==
    \/ OpenDashboard
    \/ OpenNewListing
    \/ \E t \in TagInputs : SetTagInput(t)
    \/ AddTag
    \/ \E tag \in Tags : RemoveTag(tag)
    \/ \E key \in Keys : HandleKeyDown(key)

SpecTags == Init /\ [][NextTags]_vars

----------------------------------------------------------------------------
(* The properties. *)

\* A response that fetchListings takes as a whole: a 2xx status, a JSON body
\* with success true and an array of records.
Accepted(resp) ==
    /\ resp # NetErr /\ ResponseOk(resp) /\ resp.json
    /\ resp.body.success /\ resp.body.data.isArray
    /\ \A i \in 1..Len(resp.body.data.items) : resp.body.data.items[i] # JsNull

\* A non-empty message is in the error slot of the dashboard.
ErrorShown(d) == d.error # Null /\ d.error[1] # ""

\* C1: refresh is all-or-nothing. A refresh that fails (network failure,
\* non-2xx status, success flag false, data that is no sequence, and also a
\* body that is no JSON or a record that is null) leaves the collection as it
\* was, puts a non-empty message into the error slot and ends normally, with
\* the loading flag false; the collection is replaced, by one record per
\* record of the response, only when the whole response was accepted.
C1_RefreshAllOrNothing ==
    [][\A r \in net : r.kind = "list" /\ r.alive =>
          \A resp \in Arrivals(r) : ListResponse(r, resp) =>
              /\ ~dash'.isLoading
              /\ IF Accepted(resp)
                 THEN /\ Len(dash'.listings) = Len(resp.body.data.items)
                      /\ \A i \in 1..Len(dash'.listings) :
                            dash'.listings[i].id = resp.body.data.items[i].id
                      /\ dash'.error = dash.error
                 ELSE /\ dash'.listings = dash.listings
                      /\ ErrorShown(dash')]_vars

\* C1, reached: a refresh has failed on the last record of its response, the
\* records before it decoded, and the collection is as it was.
C1_Witness ==
    /\ page = "dashboard" /\ ~dash.isLoading
    /\ last = Ended("fetchListings", 0, Throw(""), TRUE)
    /\ dash.error = Some(NullReadMessage)
    /\ dash.listings = <<>>

\* A delete request that the server answered with a 2xx status and an
\* envelope whose success flag is true.
DeleteSucceeded(r) ==
    /\ r.kind = "delete" /\ r.resp # NoResp
    /\ ResponseOk(r.resp) /\ r.resp.json /\ r.resp.body.success

\* C2: deleteListing is confirm-then-commit-after-success. An identifier
\* leaves the collection of the dashboard shown only in the step that hands a
\* 2xx response with success true to the handleDelete call for that
\* identifier; a delete request is sent only by a confirmed handleDelete, and
\* that step leaves the collection alone; and while a delete request of the
\* dashboard is in flight the collection changes in no other way than by the
\* removal made for a successful delete response.
C2_DeleteCommitsAfterSuccess ==
    [][/\ page = "dashboard" /\ page' = "dashboard" =>
            /\ \A id \in Ids(dash.listings) \ Ids(dash'.listings) :
                  \E r \in net \ net' : r.alive /\ r.id = id /\ DeleteSucceeded(r)
            /\ \/ dash'.listings = dash.listings
               \/ dash.isLoading
               \/ \E r \in net \ net' :
                     /\ r.alive /\ DeleteSucceeded(r)
                     /\ dash'.listings = WithoutId(dash.listings, r.id)
       /\ \A r \in net' \ net : r.kind = "delete" /\ r.resp = NoResp /\ r.alive =>
            /\ HandleDelete(r.id, TRUE)
            /\ dash' = dash
            /\ r.id \in Ids(dash.listings)]_vars

\* C2, reached: the listing 1 has left the collection after its delete
\* succeeded, and the listing 2 is still there.
C2_Witness ==
    /\ page = "dashboard"
    /\ last = Ended("handleDelete", 1, Ok(TRUE), TRUE)
    /\ Ids(dash.listings) = {2}

\* A response of a delete request that is a rejection.
Rejected(resp) ==
    \/ resp = NetErr
    \/ ~ResponseOk(resp)
    \/ ~resp.json
    \/ ~resp.body.success

\* C3: a handleDelete call that is rejected (network failure, non-2xx
\* status, 2xx with success false) changes the collection neither when it
\* sends its request nor when it takes the rejection, so the collection has
\* as many entries as before, and the error slot then holds a non-empty
\* message.
C3_RejectedDeleteKeepsCount ==
    [][/\ \A r \in net' \ net : r.kind = "delete" /\ r.resp = NoResp /\ r.alive =>
             dash'.listings = dash.listings
       /\ \A r \in net : r.kind = "delete" /\ r.alive =>
             \A resp \in Arrivals(r) : Rejected(resp) /\ DeleteResponse(r, resp) =>
                 /\ dash'.listings = dash.listings
                 /\ Len(dash'.listings) = Len(dash.listings)
                 /\ ErrorShown(dash')]_vars

\* C3, reached: the server has answered a delete with HTTP 404, and both
\* listings are still in the collection.
C3_Witness ==
    /\ page = "dashboard"
    /\ last = Ended("handleDelete", 1, Throw(""), TRUE)
    /\ dash.error = Some("Failed to delete listing: Food post not found")
    /\ Len(dash.listings) = 2

\* C4: a submit of a draft without an image sends no request, leaves every
\* field of the draft as it was, shows a message, and leaves the controller
\* editing, not submitting.
C4_NoImageNoRequest ==
    [][\A tz \in TzOffsets : form.listing.image = Null /\ HandleSubmit(tz) =>
          /\ net' = net
          /\ form'.listing = form.listing
          /\ form'.error # ""
          /\ ~form'.isSubmitting
          /\ page' = page]_vars

\* C4, reached: a draft with its required fields filled and no image has
\* been submitted.
C4_Witness ==
    /\ page = "newlisting"
    /\ last = Ended("handleSubmit", 0, Throw(""), TRUE)
    /\ form.listing.image = Null /\ form.listing.title = Pie
    /\ form.error = "Please upload an image for your listing"
    /\ \A r \in net : r.kind # "create"

\* C5: when the create request of a submit fails (non-2xx response or
\* network failure), the controller shows the message of the error envelope
\* when there is one and some non-empty message otherwise, is editing again,
\* stays on the form, and neither the submit nor the failure has changed a
\* field of the draft, the image included.
C5_FailedCreateKeepsDraft ==
    [][/\ \A r \in net' \ net : r.kind = "create" /\ r.resp = NoResp /\ r.alive =>
             form'.listing = form.listing
       /\ \A r \in net : r.kind = "create" /\ r.alive =>
             \A resp \in Arrivals(r) :
                 (resp = NetErr \/ ~ResponseOk(resp)) /\ CreateResponse(r, resp) =>
                     /\ form'.listing = form.listing
                     /\ form'.previewImage = form.previewImage
                     /\ ~form'.isSubmitting
                     /\ page' = page
                     /\ form'.error # ""
                     /\ (resp # NetErr /\ resp.json /\ resp.body.message # ""
                            => form'.error = resp.body.message)]_vars

\* C5, reached: the server has refused a draft with HTTP 400, and the draft
\* still has its title and its image.
C5_Witness ==
    /\ page = "newlisting"
    /\ last = Ended("handleSubmit", 0, Throw(""), TRUE)
    /\ form.error = "Title is too long"
    /\ form.listing.image = Some(BlobA) /\ form.listing.title = Pie
    /\ ~form.isSubmitting

\* The title of the listing has q as a substring, whatever the case.
TitleMatches(listing, q) == includes(toLowerCase(listing.title), toLowerCase(q))

\* C6: once a submit has succeeded and the dashboard is shown, its refresh
\* over and without an error, the created listing is in the collection and
\* in the result of every filter whose query matches its title.
C6_CreatedListingIsShown ==
    page = "dashboard" /\ created # Null /\ ~dash.isLoading /\ dash.error = Null =>
        /\ created[1] \in Ids(dash.listings)
        /\ \A q \in Queries : \A i \in 1..Len(db) :
              db[i].id = created[1] /\ TitleMatches(db[i], q) =>
                  created[1] \in Ids(filteredListings(dash.listings, q))

\* C7: a delete sent by a dashboard and the refresh of the dashboard mounted
\* next are pending together. When the response of the delete, a success, is
\* applied after the refresh has ended without an error, the collection is
\* without the deleted identifier.
C7_DeleteAppliedLastRemoves ==
    \A id \in 1..MaxId :
        /\ page = "dashboard" /\ ~dash.isLoading /\ dash.error = Null
        /\ last = Ended("handleDelete", id, Ok(TRUE), FALSE)
        => id \notin Ids(dash.listings)

\* The requests of the mounted component that are in flight.
InFlight(kind) == {r \in net : r.kind = kind /\ r.alive}

\* C8: at most one create request of the form shown is in flight, and while
\* it is the form is submitting and no submit can be triggered; at most one
\* list request of the dashboard shown is in flight, and while it is the
\* dashboard is loading.
C8_OneIdenticalOperation ==
    /\ Cardinality(InFlight("create")) <= 1
    /\ Cardinality(InFlight("list")) <= 1
    /\ InFlight("create") # {} => page = "newlisting" /\ form.isSubmitting
    /\ InFlight("list") # {} => page = "dashboard" /\ dash.isLoading
    /\ form.isSubmitting => \A tz \in TzOffsets : ~ENABLED HandleSubmit(tz)

\* C8, reached: the create request of a submitted draft is in flight, the
\* server has answered it, and the form is still shown.
C8_Witness ==
    /\ page = "newlisting" /\ form.isSubmitting
    /\ \E r \in InFlight("create") : r.resp # NoResp

\* C9: two listings of the collection, which one refresh has decoded, that
\* carry the same expiration timestamp have the same duration.
C9_SameExpirationSameDuration ==
    \A i, j \in 1..Len(dash.listings) :
        dash.listings[i].expirationDate = dash.listings[j].expirationDate
            => dash.listings[i].duration = dash.listings[j].duration

\* The whole hours from the instant t to the instant e, rounded up, and zero
\* when e is not after t.
CeilHours(e, t) ==
    CHOOSE n \in 0..(MaxTick + 1) :
        \/ n = 0 /\ e <= t
        \/ n > 0 /\ (n - 1) * MsPerHour < e - t /\ e - t <= n * MsPerHour

\* C10: the duration of every listing in the collection is a non-negative
\* integer, the hours from some evaluation time to its expiration, rounded
\* up and floored at zero.
C10_DurationIsNonNegativeInteger ==
    \A i \in 1..Len(dash.listings) :
        /\ ~IsNaN(dash.listings[i].duration)
        /\ dash.listings[i].duration[1] \in Nat
        /\ "iso" \in DOMAIN dash.listings[i].expirationDate
        /\ \E t \in 0..MaxTick :
              dash.listings[i].duration[1] =
                  CeilHours(dash.listings[i].expirationDate.iso, Instant(t))

\* The part of C10 that holds: a listing whose expiration date can be parsed
\* has the duration C10 gives, zero when the date is not after the time of
\* the evaluation.
ParsableDurations ==
    \A i \in 1..Len(dash.listings) :
        "iso" \in DOMAIN dash.listings[i].expirationDate =>
            /\ ~IsNaN(dash.listings[i].duration)
            /\ dash.listings[i].duration[1] \in Nat
            /\ \E t \in 0..MaxTick :
                  dash.listings[i].duration[1] =
                      CeilHours(dash.listings[i].expirationDate.iso, Instant(t))

\* C11: decode is total. A record whose expiration date cannot be parsed is
\* decoded, with the duration 0, and every duration of the collection that
\* the refresh stores is a non-negative integer.
C11_UnparsableDateGivesZero ==
    \A i \in 1..Len(dash.listings) :
        /\ "text" \in DOMAIN dash.listings[i].expirationDate
              => dash.listings[i].duration = Num(0)
        /\ dash.listings[i].duration # NaN

\* C11, reached: the refresh of a response with a record whose expiration
\* date cannot be parsed has ended without an error, the record decoded.
C11_Reached ==
    /\ page = "dashboard" /\ ~dash.isLoading /\ dash.error = Null
    /\ last = Ended("fetchListings", 0, Ok(TRUE), TRUE)
    /\ \E i \in 1..Len(dash.listings) : dash.listings[i].expirationDate = Unparsable

\* a <= b on JavaScript numbers: false when one of them is NaN.
JsLeq(a, b) == ~IsNaN(a) /\ ~IsNaN(b) /\ a[1] <= b[1]

\* C12: decoding is a function of the server record and of the evaluation
\* time. A listing of the collection, decoded again at an instant not before
\* the one it was decoded at, has the same tags, status and image, and a
\* duration less than or equal to the one it has.
C12_DecodeLaterNotLonger ==
    \A i \in 1..Len(dash.listings) : \A t \in tick..MaxTick :
        LET again == Decode(dash.listings[i], Instant(t))
        IN  /\ again.tags = dash.listings[i].tags
            /\ again.status = dash.listings[i].status
            /\ again.image = dash.listings[i].image
            /\ JsLeq(again.duration, dash.listings[i].duration)

\* The part of C12 that holds: it holds for each listing whose expiration
\* date can be parsed.
ParsableDecodeLaterNotLonger ==
    \A i \in 1..Len(dash.listings) : \A t \in tick..MaxTick :
        LET again == Decode(dash.listings[i], Instant(t))
        IN  /\ again.tags = dash.listings[i].tags
            /\ again.status = dash.listings[i].status
            /\ again.image = dash.listings[i].image
            /\ "iso" \in DOMAIN dash.listings[i].expirationDate
                  => JsLeq(again.duration, dash.listings[i].duration)

\* The places of the commas of the text s, in order, with 0 before them and
\* Len(s) + 1 after them.
Cuts(s) ==
    LET commas == {i \in 1..Len(s) : s[i] = ","}
        at[k \in 0..Cardinality(commas)] ==
            IF k = 0 THEN 0
            ELSE CHOOSE i \in commas : Cardinality({j \in commas : j < i}) = k - 1
    IN  [k \in 1..(Cardinality(commas) + 2) |->
            IF k = Cardinality(commas) + 2 THEN Len(s) + 1 ELSE at[k - 1]]

\* The text x without the spaces at its two ends.
Trimmed(x) ==
    IF \A i \in 1..Len(x) : x[i] = " " THEN <<>>
    ELSE LET inked == {i \in 1..Len(x) : x[i] # " "}
             first == CHOOSE i \in inked : \A j \in inked : i <= j
             final == CHOOSE i \in inked : \A j \in inked : j <= i
         IN  SubSeq(x, first, final)

\* The trimmed segments of the text s between its commas, in order; none for
\* the empty text.
Segments(s) ==
    IF s = <<>> THEN <<>>
    ELSE [k \in 1..(Len(Cuts(s)) - 1) |->
             Trimmed(SubSeq(s, Cuts(s)[k] + 1, Cuts(s)[k + 1] - 1))]

\* C13: the tags of every listing of the collection are the trimmed
\* segments, in order, of its dietary-restriction text between the commas:
\* none for the empty text, one for a text without a comma, "Vegan" and
\* "Gluten-Free" for "Vegan, Gluten-Free"; its image is the first image URL
\* when there is one and null otherwise.
C13_TagsAndImage ==
    \A i \in 1..Len(dash.listings) :
        LET l == dash.listings[i]
        IN  /\ l.tags = Segments(l.dietaryRestrictions)
            /\ l.dietaryRestrictions = <<>> => l.tags = <<>>
            /\ (l.dietaryRestrictions # <<>>
                  /\ \A k \in 1..Len(l.dietaryRestrictions) : l.dietaryRestrictions[k] # ",")
                  => Len(l.tags) = 1
            /\ l.dietaryRestrictions = VeganGlutenFree => l.tags = <<VeganOnly, GlutenFree>>
            /\ l.image = IF l.imageUrl = <<>> THEN Null ELSE Some(l.imageUrl[1])

\* C13, reached: a refresh has decoded a record with "Vegan, Gluten-Free"
\* and one image, a record with one tag and no image, and a record whose
\* text ends with a comma and that has two images.
C13_Reached ==
    /\ page = "dashboard" /\ ~dash.isLoading
    /\ Len(dash.listings) = 3
    /\ dash.listings[1].tags = <<VeganOnly>> /\ dash.listings[1].image = Null
    /\ dash.listings[2].tags = <<VeganOnly, GlutenFree>>
    /\ dash.listings[2].image = Some("/uploads/3.png")
    /\ dash.listings[3].tags = <<VeganOnly, <<>>>>
    /\ dash.listings[3].image = Some("/uploads/5.png")

\* C14: the filter with the empty query gives the collection, unchanged in
\* order and contents.
C14_EmptyQueryKeepsAll ==
    filteredListings(dash.listings, <<>>) = dash.listings

\* C14, reached: three listings are shown, the search input empty.
C14_Reached ==
    /\ page = "dashboard" /\ ~dash.isLoading
    /\ dash.searchQuery = <<>>
    /\ Len(filteredListings(dash.listings, dash.searchQuery)) = 3

\* The letters a and b are the same, whatever their case.
SameLetter(a, b) ==
    \/ a = b
    \/ \E k \in 1..Len(Uppers) : {a, b} = {Uppers[k], Lowers[k]}

\* The query q is a substring of the text s, whatever the case.
InsideOf(q, s) ==
    \E at \in 0..(Len(s) - Len(q)) : \A k \in 1..Len(q) : SameLetter(s[at + k], q[k])

\* The listing is wanted for the query q: by its title, by its organization
\* or by one of its tags.
Wanted(listing, q) ==
    \/ InsideOf(q, listing.title)
    \/ InsideOf(q, listing.organization)
    \/ \E k \in 1..Len(listing.tags) : InsideOf(q, listing.tags[k])

\* The wanted listings of the collection c, in the order of c.
RECURSIVE Kept(_, _)
Kept(c, q) ==
    IF c = <<>> THEN <<>>
    ELSE (IF Wanted(Head(c), q) THEN <<Head(c)>> ELSE <<>>) \o Kept(Tail(c), q)

\* C15: for every query, the filter gives exactly the listings for which
\* the query is a substring, whatever the case, of the title, of the
\* organization or of a tag, in the order of the collection; the query
\* "vegan" finds each listing with the tag "Vegan".
C15_FilterIsCaseInsensitiveSelection ==
    /\ \A q \in CodecQueries : filteredListings(dash.listings, q) = Kept(dash.listings, q)
    /\ \A i \in 1..Len(dash.listings) :
          (\E k \in 1..Len(dash.listings[i].tags) : dash.listings[i].tags[k] = VeganOnly)
              => dash.listings[i].id
                    \in Ids(filteredListings(dash.listings, <<"v", "e", "g", "a", "n">>))

\* C15, reached: the user has typed "vegan", and of the two listings the one
\* with the tag "Vegan" is shown, the other is not.
C15_Reached ==
    /\ page = "dashboard" /\ ~dash.isLoading
    /\ dash.searchQuery = <<"v", "e", "g", "a", "n">>
    /\ Len(dash.listings) = 2
    /\ filteredListings(dash.listings, dash.searchQuery) = <<dash.listings[2]>>
    /\ dash.listings[2].tags = <<VeganOnly, GlutenFree>>

\* C16: a change of the search query leaves the collection, the loading flag
\* and the error slot as they are; filtering a filter result of any
\* collection the dashboard comes to hold again with the same query changes
\* nothing; and the collection of the dashboard shown
\* changes only when a response is handed to its refresh or to one of its
\* deletes.
C16_FilterNeverMutatesStore ==
    [][/\ page' = page /\ dash'.searchQuery # dash.searchQuery =>
             /\ dash'.listings = dash.listings
             /\ dash'.isLoading = dash.isLoading
             /\ dash'.error = dash.error
       /\ dash'.listings # dash.listings =>
             \A q \in CodecQueries :
                 filteredListings(filteredListings(dash'.listings, q), q)
                     = filteredListings(dash'.listings, q)
       /\ page = "dashboard" /\ page' = "dashboard" /\ dash'.listings # dash.listings =>
             \E r \in net \ net' : r.alive /\ r.kind \in {"list", "delete"}]_vars

\* C16, reached: the user has typed a query after a delete has failed; the
\* message is still there, and the query hides one of the two listings.
C16_Reached ==
    /\ page = "dashboard" /\ ~dash.isLoading
    /\ dash.searchQuery = <<"p", "I">>
    /\ ErrorShown(dash)
    /\ Len(dash.listings) = 2
    /\ Len(filteredListings(dash.listings, dash.searchQuery)) = 1

\* C17: for every draft and every tag typed, adding the tag and then
\* adding it again leaves the dietary restrictions, and the rest of the
\* draft and the error, as the first add left them.
C17_SecondAddChangesNothing ==
    page = "newlisting" =>
        \A t \in TagInputs :
            LET once == TagAdded([form EXCEPT !.tagInput = t])
                twice == TagAdded([once EXCEPT !.tagInput = t])
            IN  /\ twice.listing = once.listing
                /\ twice.error = once.error

\* C17, reached: the user has added "Vegan", has typed it again and has
\* pressed Add again; the second add was refused.
C17_Reached ==
    /\ page = "newlisting"
    /\ last = Ended("addTag", 0, Throw(""), TRUE)
    /\ form.tagInput = VeganOnly
    /\ form.listing.dietaryRestrictions = VeganOnly

\* C18: at most one object URL made for a preview is unrevoked while a
\* draft is shown, and none is once the draft is gone.
C18_PreviewsAreReleased ==
    /\ objectUrls <= 1
    /\ page = "dashboard" => objectUrls = 0

\* C18, reached: the user has attached an image to a draft and has left the
\* form for the dashboard.
C18_Reached ==
    /\ page = "dashboard"
    /\ form = FormInitial
    /\ objectUrls > 0

\* C19: a handleDelete whose prompt the user declines sends no request and
\* leaves the collection, the loading flag and the error slot as they are.
C19_DeclinedDeleteChangesNothing ==
    [][\A id \in 1..MaxId :
          last' = Ended("window.confirm", 0, Throw(""), TRUE) /\ HandleDelete(id, FALSE) =>
          /\ net' = net
          /\ dash'.listings = dash.listings
          /\ dash'.isLoading = dash.isLoading
          /\ dash'.error = dash.error
          /\ db' = db]_vars

\* C19, reached: the user has declined the prompt for a listing; both
\* listings are there, and no request is in flight.
C19_Reached ==
    /\ page = "dashboard"
    /\ last = Ended("window.confirm", 0, Throw(""), TRUE)
    /\ Len(dash.listings) = 2
    /\ dash.error = Null
    /\ net = {}

\* The instant t, truncated to the minute.
WholeMinute(t) == (t \div MsPerMinute) * MsPerMinute

\* C20: the expiration date in the payload of a create request, sent for a
\* draft whose expiration field the user has not touched, is the instant at
\* which the form was mounted plus 24 hours, truncated to the minute, in
\* every time zone. (No clock is read while the form is shown, so the form
\* shown was mounted at the instant last read.)
C20_DefaultExpirationIs24HoursOut ==
    page = "newlisting" =>
        \A r \in InFlight("create") :
            r.payload.expirationDate = Iso(WholeMinute(Instant(tick) + 24 * MsPerHour))

\* C20, reached: a draft with the default expiration date has been
\* submitted, and its request is in flight.
C20_Reached ==
    /\ page = "newlisting" /\ form.isSubmitting
    /\ form.listing.expirationDate = IsoMinute(Instant(tick) + 24 * MsPerHour)
    /\ InFlight("create") # {}

\* C21: a list request is sent only together with the loading flag up and
\* the error slot empty; the step in which a list request of the dashboard
\* shown resolves, with a success or with any failure, leaves the loading
\* flag down; the dashboard shown is loading exactly while a list request of
\* its own is in flight; and a dashboard that is loading stops loading, if it
\* is not left before.
C21_LoadingWhileListInFlight ==
    /\ [](page = "dashboard" => (dash.isLoading <=> InFlight("list") # {}))
    /\ [][/\ \A r \in net' \ net : r.kind = "list" /\ r.resp = NoResp =>
                dash'.isLoading /\ dash'.error = Null
          /\ \A r \in net \ net' :
                /\ r.kind = "list" /\ r.alive /\ page' = page
                /\ \A x \in net' : x.rid # r.rid
                => ~dash'.isLoading]_vars
    /\ (page = "dashboard" /\ dash.isLoading)
          ~> (page # "dashboard" \/ ~dash.isLoading)

\* C21, reached: the refresh of the dashboard shown has ended on a network
\* failure; the loading flag is down and no list request is in flight.
C21_Reached ==
    /\ page = "dashboard" /\ ~dash.isLoading
    /\ last = Ended("fetchListings", 0, Throw(""), TRUE)
    /\ dash.error = Some(FailureMessage)
    /\ InFlight("list") = {}

\* C22: the step that hands a response with a 2xx status, whatever its
\* body, to the handleSubmit of the form shown leaves the form for the
\* dashboard and shows no error; and the handleSubmit of a request for which
\* the server has created a listing does not end in its catch block.
C22_Every2xxLeavesDraft ==
    [][\A r \in net : r.kind = "create" /\ r.alive =>
          \A resp \in Arrivals(r) : CreateResponse(r, resp) =>
              /\ resp # NetErr /\ ResponseOk(resp) =>
                    page' = "dashboard" /\ form'.error = ""
              /\ r.resp # NoResp => last'.ok]_vars

\* The part of C22 that holds: a response with a 2xx status and a JSON body
\* leaves the form for the dashboard, and no error is shown.
JsonSuccessLeavesDraft ==
    [][\A r \in net : r.kind = "create" /\ r.alive =>
          \A resp \in Arrivals(r) :
              resp # NetErr /\ ResponseOk(resp) /\ resp.json /\ CreateResponse(r, resp) =>
                  page' = "dashboard" /\ form'.error = "" /\ last'.ok]_vars

\* C22, reached: the server has created the listing and has answered with
\* the status 201; the form is still shown, with the message of a body that
\* is no JSON.
C22_Reached ==
    /\ page = "newlisting" /\ ~form.isSubmitting
    /\ last = Ended("handleSubmit", 0, Throw(""), TRUE)
    /\ form.error = JsonErrorMessage
    /\ \E i \in 1..Len(db) : db[i].id = 3 /\ db[i].title = form.listing.title
    /\ InFlight("create") = {}

\* C23: the form shown is submitting exactly while a create request of its
\* own is in flight, and shows no message while it is; a submit of a draft
\* without an image ends at once, not submitting, with the message of the
\* validation; the step that hands a response to the handleSubmit of the
\* form shown either leaves the form, on a success, or leaves it not
\* submitting and with a message, on a failure; and a form that is
\* submitting stops submitting, if it is not left before.
C23_SubmitLeavesSubmitting ==
    /\ [](page = "newlisting" => (form.isSubmitting <=> InFlight("create") # {}))
    /\ [](page = "newlisting" /\ form.isSubmitting => form.error = "")
    /\ [][/\ \A tz \in TzOffsets : form.listing.image = Null /\ HandleSubmit(tz) =>
                /\ ~form'.isSubmitting
                /\ form'.error = "Please upload an image for your listing"
          /\ \A r \in net \ net' :
                /\ r.kind = "create" /\ r.alive
                /\ \A x \in net' : x.rid # r.rid
                => /\ ~form'.isSubmitting
                   /\ last'.handler = "handleSubmit"
                   /\ IF last'.ok
                      THEN page' = "dashboard" /\ form'.error = ""
                      ELSE page' = "newlisting" /\ form'.error # ""]_vars
    /\ (page = "newlisting" /\ form.isSubmitting)
          ~> (page # "newlisting" \/ ~form.isSubmitting)

\* C23, reached: a submit has failed and the user has submitted the draft
\* again; the form is submitting, and the message of the first submit is
\* gone.
C23_Reached ==
    /\ page = "newlisting" /\ form.isSubmitting
    /\ last = Ended("handleSubmit", 0, Throw(""), TRUE)
    /\ form.error = ""
    /\ InFlight("create") # {}

\* The text q is a part of the text s: the letters of q, as they are, stand
\* in s one after the other.
PartOf(q, s) ==
    \E at \in 0..(Len(s) - Len(q)) : \A k \in 1..Len(q) : s[at + k] = q[k]

\* C24: when the pending input, without the spaces at its ends, is not
\* empty and is no part of the dietary-restriction text, addTag puts it at
\* the end of that text, after ", " when the text is not empty, and empties
\* the pending input; in every other case (an empty input, a tag that is
\* there, a part of a tag that is there) addTag leaves the text and the
\* pending input as they are. It changes nothing else, the error included.
C24_AddTagAppendsOrLeaves ==
    [][last'.handler = "addTag" /\ AddTag =>
          LET t == Trimmed(form.tagInput)
              diet == form.listing.dietaryRestrictions
          IN  /\ IF t # <<>> /\ ~PartOf(t, diet)
                 THEN /\ form'.listing.dietaryRestrictions =
                            IF diet = <<>> THEN t ELSE diet \o <<",", " ">> \o t
                      /\ form'.tagInput = <<>>
                 ELSE /\ form'.listing.dietaryRestrictions = diet
                      /\ form'.tagInput = form.tagInput
              /\ [form' EXCEPT !.listing.dietaryRestrictions = diet,
                               !.tagInput = form.tagInput] = form
              /\ form'.error = ""]_vars

\* C24, reached: "nut", typed with spaces around it, and "Vegan" have been
\* added, and the add of "Veg", a part of "Vegan", has been refused.
C24_Reached ==
    /\ page = "newlisting"
    /\ last = Ended("addTag", 0, Throw(""), TRUE)
    /\ form.tagInput = <<"V", "e", "g">>
    /\ form.listing.dietaryRestrictions = <<"n", "u", "t", ",", " ">> \o VeganOnly

\* The tags other than t, in their order.
RECURSIVE Others(_, _)
Others(tags, t) ==
    IF tags = <<>> THEN <<>>
    ELSE (IF Head(tags) = t THEN <<>> ELSE <<Head(tags)>>) \o Others(Tail(tags), t)

\* The tags written one after the other, with ", " between two of them.
RECURSIVE Serialized(_)
Serialized(tags) ==
    IF tags = <<>> THEN <<>>
    ELSE IF Len(tags) = 1 THEN tags[1]
    ELSE Serialized(SubSeq(tags, 1, Len(tags) - 1)) \o <<",", " ">> \o tags[Len(tags)]

\* The tags of the draft f, as the form shows them.
TagsOf(f) == dietaryTags(f.listing.dietaryRestrictions)

\* The draft f after t has been typed and added, and then removed.
AddedThenRemoved(f, t) ==
    TagRemoved(TagAdded([f EXCEPT !.tagInput = t]), Trimmed(t))

\* C25: after removeTag(t) no tag of the draft is t, the other tags are
\* there in their order, the dietary-restriction text is these tags joined
\* by ", ", and so the empty text when t was the only tag; and for every
\* input t that addTag accepts, adding t and then removing it gives the tags
\* the draft had before.
C25_RemoveTagKeepsTheOthers ==
    /\ [][\A t \in Tags : last'.handler = "removeTag" /\ RemoveTag(t) =>
             /\ \A i \in 1..Len(TagsOf(form')) : TagsOf(form')[i] # t
             /\ TagsOf(form') = Others(TagsOf(form), t)
             /\ form'.listing.dietaryRestrictions = Serialized(TagsOf(form'))
             /\ TagsOf(form) = <<t>> => form'.listing.dietaryRestrictions = <<>>]_vars
    /\ [](page = "newlisting" =>
             \A t \in TagInputs :
                 Trimmed(t) # <<>> /\ ~PartOf(Trimmed(t), form.listing.dietaryRestrictions)
                     => TagsOf(AddedThenRemoved(form, t)) = TagsOf(form))

\* The text s holds no comma.
CommaFree(s) == \A i \in 1..Len(s) : s[i] # ","

\* The part of C25 that holds: after removeTag(t) no tag of the draft is t
\* and the other tags are there in their order; when the text was its tags
\* joined by ", " it is so afterwards, and is empty when t was the only tag;
\* and adding an input without a comma and then removing it gives the tags
\* the draft had before.
RemoveTagOfJoinedTags ==
    /\ [][\A t \in Tags : last'.handler = "removeTag" /\ RemoveTag(t) =>
             /\ \A i \in 1..Len(TagsOf(form')) : TagsOf(form')[i] # t
             /\ TagsOf(form') = Others(TagsOf(form), t)
             /\ form.listing.dietaryRestrictions = Serialized(TagsOf(form)) =>
                   /\ form'.listing.dietaryRestrictions = Serialized(TagsOf(form'))
                   /\ TagsOf(form) = <<t>> => form'.listing.dietaryRestrictions = <<>>]_vars
    /\ [](page = "newlisting" =>
             \A t \in TagInputs :
                 /\ CommaFree(t) /\ Trimmed(t) # <<>>
                 /\ ~PartOf(Trimmed(t), form.listing.dietaryRestrictions)
                 => TagsOf(AddedThenRemoved(form, t)) = TagsOf(form))

\* C25, reached: a comma was added, then "Vegan"; "Vegan", the only tag
\* shown, was removed, and the dietary-restriction text is ", ".
C25_Reached ==
    /\ page = "newlisting"
    /\ last = Ended("removeTag", 0, Ok(TRUE), TRUE)
    /\ TagsOf(form) = <<>>
    /\ form.listing.dietaryRestrictions = <<",", " ">>

\* C26: a list request and a delete request of the dashboard shown are never
\* in flight together: a list request is sent only in the step that mounts
\* the dashboard, the loading flag up; a delete request is sent only while
\* the loading flag is down and no list request of the dashboard is in
\* flight; and while the dashboard is loading no handleDelete can start.
C26_NoDeleteWhileRefreshing ==
    /\ [](InFlight("list") = {} \/ InFlight("delete") = {})
    /\ [](page = "dashboard" /\ dash.isLoading =>
             \A id \in 1..MaxId, confirmed \in BOOLEAN : ~ENABLED HandleDelete(id, confirmed))
    /\ [][\A r \in net' \ net : r.resp = NoResp /\ r.alive =>
             /\ r.kind = "list" =>
                   page = "newlisting" /\ page' = "dashboard" /\ dash'.isLoading
             /\ r.kind = "delete" =>
                   page = "dashboard" /\ ~dash.isLoading /\ InFlight("list") = {}]_vars

\* C26, reached: the refresh of the dashboard shown is over, and two of its
\* delete requests are in flight.
C26_Reached ==
    /\ page = "dashboard" /\ ~dash.isLoading
    /\ Cardinality(InFlight("delete")) = 2
    /\ InFlight("list") = {}
    /\ last = Ended("fetchListings", 0, Ok(TRUE), TRUE)

\* The collection c without the listings whose identifier is in gone.
RECURSIVE Remaining(_, _)
Remaining(c, gone) ==
    IF c = <<>> THEN <<>>
    ELSE (IF Head(c).id \in gone THEN <<>> ELSE <<Head(c)>>) \o Remaining(Tail(c), gone)

\* C27: whatever deletes of the dashboard shown are or were in flight
\* together, and in whatever order their responses arrived, the collection
\* is the one the refresh stored without exactly the identifiers whose
\* delete has succeeded; the step that hands a failure to a handleDelete
\* leaves the collection as it is, the removals made before included, and
\* the step that hands it a success removes its identifier and no other.
C27_ConcurrentDeletesLoseNothing ==
    /\ [](page = "dashboard" /\ ~dash.isLoading =>
             dash.listings = Remaining(commits.loaded, commits.removed))
    /\ [][\A r \in net \ net' :
             /\ r.kind = "delete" /\ r.alive /\ page' = page
             /\ \A x \in net' : x.rid # r.rid
             => /\ last'.handler = "handleDelete" /\ last'.id = r.id
                /\ IF last'.ok
                   THEN /\ commits'.removed = commits.removed \cup {r.id}
                        /\ dash'.listings = Remaining(dash.listings, {r.id})
                   ELSE /\ commits'.removed = commits.removed
                        /\ dash'.listings = dash.listings
                /\ commits'.loaded = commits.loaded]_vars

\* C27, reached: the deletes of the listings 1 and 2 were in flight
\* together (the request for 1 was numbered while the other was pending);
\* the delete of 2 has succeeded, the one of 1 is pending still, and the
\* collection is the one stored without the listing 2.
C27_Reached ==
    /\ page = "dashboard"
    /\ last = Ended("handleDelete", 2, Ok(TRUE), TRUE)
    /\ \E r \in InFlight("delete") : net = {r} /\ r.rid = 2 /\ r.id = 1
    /\ Len(commits.loaded) = 2 /\ commits.removed = {2}
    /\ Ids(dash.listings) = {1}

\* C28: while a dashboard is shown its error slot, once set, is not emptied:
\* it changes only in the step that hands a failure to the refresh or to a
\* delete of the dashboard, and then to a message; a delete that succeeds,
\* a delete that is declined, the sending of a delete and a change of the
\* search query leave it as it is. It is empty again only for a dashboard
\* that mounts, whose refresh starts with the slot empty.
C28_ErrorStaysUntilRefresh ==
    [][/\ page' = page /\ dash'.error # dash.error =>
             /\ dash'.error # Null
             /\ ~last'.ok
             /\ \E r \in net \ net' :
                   /\ r.alive /\ r.kind \in {"list", "delete"}
                   /\ \A x \in net' : x.rid # r.rid
       /\ dash.error # Null /\ dash'.error = Null =>
             /\ page = "dashboard" /\ page' = "newlisting"
       /\ \A r \in net' \ net : r.kind = "list" /\ r.resp = NoResp =>
             dash'.error = Null]_vars

\* C28, reached: a delete has failed on the network, a later delete, of the
\* listing 2, has succeeded, and the message of the failed delete is still
\* shown.
C28_Reached ==
    /\ page = "dashboard" /\ ~dash.isLoading
    /\ last = Ended("handleDelete", 2, Ok(TRUE), TRUE)
    /\ Len(commits.loaded) = 2 /\ commits.removed = {2}
    /\ dash.error = Some("Failed to delete listing: " \o FailureMessage)

====
